---- MODULE Spec2Model ----
(***************************************************************************)
(* Model of MyDB (src/latest.py): the where-clause evaluator, the LIKE     *)
(* pattern matcher, the scan of select_from with its aggregates, the       *)
(* methods that make a database and fill a table, and chunk_csv.           *)
(*                                                                         *)
(* Python strings are sequences of one-character strings, so that split,   *)
(* strip, join and the lexicographic comparison are computed as Python     *)
(* computes them.                                                          *)
(***************************************************************************)
EXTENDS Integers, Sequences, FiniteSets, TLC

VARIABLES
    \* the file of the table select_from reads
    file_exists,       \* os.path.exists(file_path)
    table_file,        \* its lines, the header line first
    \* the arguments of select_from
    columns, distinct, where_clause, memory_limit,
    \* the locals of select_from
    pc,                \* position in select_from
    fieldnames,        \* reader.fieldnames
    rows_list,         \* list(reader)
    row_idx,           \* index in rows_list of the row the loop is at
    results, seen_values, memory_usage, max_col_widths,
    aggregate_function, column_to_aggregate,
    count, sum_value, min_value, max_value,
    evaluate_where_counter,   \* self._evaluate_where_counter
    stdout,            \* what select_from has printed, in order
    \* history of the scan, read by the properties only
    results_src,       \* for each tuple of results, the index of its row
    budget_stop,       \* the loop was left by the break on the memory limit
    \* one call of a method without side effects: arguments and outcome
    call, ret,
    \* the database directory and the object's selection of it
    db_exists,         \* os.path.exists of the database directory
    current_db,        \* self.current_db
    inserted,          \* history: the rows written to the table file, in order
    root_table_exists, \* os.path.exists of dataset/t.csv, beside dataset/d/t.csv
    \* the locals of chunk_csv and the chunk files
    chunk_pc,          \* position in chunk_csv
    row_size, rows_per_chunk, chunk_count, chunk,
    chunk_row,         \* index in the file of the row the reader gives next
    chunk_files        \* the chunk files written, chunk 0 first

tableVars == <<file_exists, table_file>>
argVars == <<columns, distinct, where_clause, memory_limit>>
localVars == <<fieldnames, rows_list, row_idx, results, seen_values,
               memory_usage, max_col_widths, aggregate_function,
               column_to_aggregate, count, sum_value, min_value, max_value,
               evaluate_where_counter, stdout, results_src, budget_stop>>
localVarsButStdout == <<fieldnames, rows_list, row_idx, results, seen_values,
                        memory_usage, max_col_widths, aggregate_function,
                        column_to_aggregate, count, sum_value, min_value,
                        max_value, evaluate_where_counter, results_src, budget_stop>>
callVars == <<call, ret>>
storeVars == <<db_exists, current_db, inserted, root_table_exists>>
chunkVars == <<chunk_pc, row_size, rows_per_chunk, chunk_count, chunk, chunk_row,
               chunk_files>>
vars == <<tableVars, argVars, pc, localVars, callVars, storeVars, chunkVars>>

(***************************************************************************)
(* Bounds of the model.                                                    *)
(***************************************************************************)
MaxRows == 3           \* data rows in a table
MaxLeaves == 3         \* comparison leaves in a where clause
MaxValueLen == 3       \* length of a value given to the pattern matcher
MaxPatternLen == 4     \* length of a LIKE pattern

(***************************************************************************)
(* Python str operations.                                                  *)
(***************************************************************************)
None == <<"None">>

\* ord(c) for the characters the model uses
Ord(c) ==
    CASE c = " " -> 32 [] c = "!" -> 33 [] c = "%" -> 37 [] c = "'" -> 39
      [] c = "0" -> 48 [] c = "1" -> 49 [] c = "2" -> 50 [] c = "3" -> 51
      [] c = "9" -> 57
      [] c = "<" -> 60 [] c = "=" -> 61 [] c = ">" -> 62
      [] c = "A" -> 65 [] c = "X" -> 88 [] c = "_" -> 95
      [] c = "a" -> 97 [] c = "b" -> 98 [] c = "c" -> 99 [] c = "d" -> 100
      [] c = "e" -> 101 [] c = "i" -> 105 [] c = "k" -> 107 [] c = "l" -> 108
      [] c = "n" -> 110 [] c = "o" -> 111 [] c = "r" -> 114
      [] c = "x" -> 120 [] c = "y" -> 121 [] c = "z" -> 122 [] c = "~" -> 126

Tail2(s, n) == SubSeq(s, n + 1, Len(s))    \* s[n:]

\* an order that takes the two strings as the numbers they write
StrLtAsNumbers(s, t) ==
    \/ Len(s) < Len(t)
    \/ /\ Len(s) = Len(t)
       /\ \E k \in 1..Len(s) :
              SubSeq(s, 1, k - 1) = SubSeq(t, 1, k - 1) /\ Ord(s[k]) < Ord(t[k])

\* s < t on str: lexicographic by code point, a proper prefix is smaller
RECURSIVE StrLt(_, _)
StrLt(s, t) ==
    IF t = <<>> THEN FALSE
    ELSE IF s = <<>> THEN TRUE
    ELSE IF s[1] = t[1] THEN StrLt(Tail(s), Tail(t))
    ELSE Ord(s[1]) < Ord(t[1])

StrLe(s, t) == s = t \/ StrLt(s, t)

StartsWith(s, p) == Len(p) <= Len(s) /\ SubSeq(s, 1, Len(p)) = p

\* sub in s
Contains(s, sub) == \E i \in 0..(Len(s) - Len(sub)) : StartsWith(Tail2(s, i), sub)

\* s.split(sep), sep non-empty: leftmost non-overlapping occurrences
RECURSIVE SplitAcc(_, _, _)
SplitAcc(s, sep, cur) ==
    IF s = <<>> THEN <<cur>>
    ELSE IF StartsWith(s, sep) THEN <<cur>> \o SplitAcc(Tail2(s, Len(sep)), sep, <<>>)
    ELSE SplitAcc(Tail(s), sep, Append(cur, s[1]))

Split(s, sep) == SplitAcc(s, sep, <<>>)

\* s.split(): runs of non-whitespace characters
RECURSIVE SplitWsAcc(_, _)
SplitWsAcc(s, cur) ==
    IF s = <<>> THEN (IF cur = <<>> THEN <<>> ELSE <<cur>>)
    ELSE IF s[1] = " "
         THEN (IF cur = <<>> THEN <<>> ELSE <<cur>>) \o SplitWsAcc(Tail(s), <<>>)
         ELSE SplitWsAcc(Tail(s), Append(cur, s[1]))

SplitWs(s) == SplitWsAcc(s, <<>>)

\* s.lstrip(ch), s.rstrip(ch), s.strip(ch) for one character ch
RECURSIVE LStrip(_, _)
LStrip(s, ch) == IF s # <<>> /\ s[1] = ch THEN LStrip(Tail(s), ch) ELSE s

RECURSIVE RStrip(_, _)
RStrip(s, ch) ==
    IF s # <<>> /\ s[Len(s)] = ch THEN RStrip(SubSeq(s, 1, Len(s) - 1), ch) ELSE s

Strip(s, ch) == RStrip(LStrip(s, ch), ch)

\* ' '.join(parts)
RECURSIVE JoinSp(_)
JoinSp(parts) ==
    IF parts = <<>> THEN <<>>
    ELSE IF Len(parts) = 1 THEN parts[1]
    ELSE parts[1] \o <<" ">> \o JoinSp(Tail(parts))

\* x in seq
InSeq(x, seq) == \E i \in 1..Len(seq) : seq[i] = x

(***************************************************************************)
(* MyDB._match_like_pattern                                                *)
(***************************************************************************)
\* a scan that starts one character late
LikeScanRangeFromOne(value) == 1..(Len(value) - 1)

\* the loop "for i in range(len(value))" of the '%' branch
LikeScanRange(value) == 0..(Len(value) - 1)

RECURSIVE _match_like_pattern(_, _)
_match_like_pattern(value, pattern) ==
    IF pattern = <<>> THEN value = <<>>
    ELSE IF pattern[1] = "%" THEN
        IF Len(pattern) = 1 THEN TRUE
        ELSE IF pattern[2] = "%" THEN _match_like_pattern(value, Tail(pattern))
        ELSE \E i \in LikeScanRange(value) :
                 _match_like_pattern(Tail2(value, i), Tail(pattern))
    ELSE IF pattern[1] = "_" THEN
        Len(value) > 0 /\ _match_like_pattern(Tail(value), Tail(pattern))
    ELSE
        /\ Len(value) > 0
        /\ value[1] = pattern[1]
        /\ _match_like_pattern(Tail(value), Tail(pattern))

(***************************************************************************)
(* The comparison leaf: MyDB._evaluate_single_condition and                *)
(* MyDB._evaluate_condition.  A call either returns a boolean or raises    *)
(* ValueError; raised = "" means it returned val.                          *)
(***************************************************************************)
Return(b) == [raised |-> "", val |-> b]
Raise(msg) == [raised |-> msg, val |-> FALSE]

InvalidFormat == "Invalid condition format"
UnsupportedOperator == "Unsupported operator"
ColumnNotFound == "Column not found in header"

\* row[column] of a csv.DictReader row: the field under the header's column
\* (under the last of them when the header names the column more than once)
IndexOf(seq, x) ==
    CHOOSE i \in 1..Len(seq) : seq[i] = x /\ \A j \in (i + 1)..Len(seq) : seq[j] # x
RowGet(row, header, column) == row[IndexOf(header, column)]

\* a chain whose last branch answers False instead of raising
CompareOpLenient(row_value, operator, value) ==
    IF operator \in {<<"=">>, <<"=", "=">>} THEN Return(row_value = value)
    ELSE IF operator = <<">", "=">> THEN Return(StrLe(value, row_value))
    ELSE IF operator = <<"<", "=">> THEN Return(StrLe(row_value, value))
    ELSE IF operator = <<">">> THEN Return(StrLt(value, row_value))
    ELSE IF operator = <<"<">> THEN Return(StrLt(row_value, value))
    ELSE IF operator \in {<<"!", "=">>, <<"<", ">">>} THEN Return(row_value # value)
    ELSE Return(FALSE)

\* the if/elif chain over the operator token
CompareOp(row_value, operator, value) ==
    IF operator \in {<<"=">>, <<"=", "=">>} THEN Return(row_value = value)
    ELSE IF operator = <<">", "=">> THEN Return(StrLe(value, row_value))
    ELSE IF operator = <<"<", "=">> THEN Return(StrLe(row_value, value))
    ELSE IF operator = <<">">> THEN Return(StrLt(value, row_value))
    ELSE IF operator = <<"<">> THEN Return(StrLt(row_value, value))
    ELSE IF operator \in {<<"!", "=">>, <<"<", ">">>} THEN Return(row_value # value)
    ELSE Raise(UnsupportedOperator)

_evaluate_single_condition(row, header, condition) ==
    LET parts == SplitWs(condition) IN
    IF Len(parts) < 3 THEN Raise(InvalidFormat)
    ELSE LET column == parts[1]
             operator == parts[2]
             value == Strip(JoinSp(Tail2(parts, 2)), "'")
         IN IF InSeq(column, header)
            THEN CompareOp(RowGet(row, header, column), operator, value)
            ELSE Raise(ColumnNotFound)

_evaluate_condition(row, header, condition) ==
    LET parts == SplitWs(condition) IN
    IF Len(parts) < 3 THEN Raise(InvalidFormat)
    ELSE LET column == parts[1]
             operator == parts[2]
             value_parts == Tail2(parts, 2)
             value == Strip(JoinSp(value_parts), "'")
         IN IF InSeq(column, header)
            THEN CompareOp(RowGet(row, header, column), operator, value)
            ELSE Raise(ColumnNotFound)

(***************************************************************************)
(* MyDB._evaluate_where                                                    *)
(***************************************************************************)
OrSep == <<" ", "o", "r", " ">>
AndSep == <<" ", "a", "n", "d", " ">>

\* a disjunction that gives up at the first false leaf
RECURSIVE AnyConditionStopsAtFalse(_, _, _)
AnyConditionStopsAtFalse(row, header, conditions) ==
    IF conditions = <<>> THEN Return(FALSE)
    ELSE LET r == _evaluate_condition(row, header, conditions[1]) IN
         IF r.raised # "" THEN r
         ELSE IF ~r.val THEN Return(FALSE)
         ELSE IF Len(conditions) = 1 THEN Return(TRUE)
         ELSE AnyConditionStopsAtFalse(row, header, Tail(conditions))

\* any(self._evaluate_condition(...) for condition in conditions): the
\* generator is consumed up to the first true leaf or the first exception
RECURSIVE AnyCondition(_, _, _)
AnyCondition(row, header, conditions) ==
    IF conditions = <<>> THEN Return(FALSE)
    ELSE LET r == _evaluate_condition(row, header, conditions[1]) IN
         IF r.raised # "" THEN r
         ELSE IF r.val THEN Return(TRUE)
         ELSE AnyCondition(row, header, Tail(conditions))

\* all(self._evaluate_single_condition(...) for condition in conditions): up
\* to the first false leaf or the first exception
RECURSIVE AllSingleCondition(_, _, _)
AllSingleCondition(row, header, conditions) ==
    IF conditions = <<>> THEN Return(TRUE)
    ELSE LET r == _evaluate_single_condition(row, header, conditions[1]) IN
         IF r.raised # "" THEN r
         ELSE IF ~r.val THEN Return(FALSE)
         ELSE AllSingleCondition(row, header, Tail(conditions))

\* the loop building valid_conditions: a condition with exactly one '=' is
\* rewritten to f"{column} = {value}", every other condition is dropped
RECURSIVE ValidConditions(_)
ValidConditions(conditions) ==
    IF conditions = <<>> THEN <<>>
    ELSE LET parts == Split(conditions[1], <<"=">>)
             rest == ValidConditions(Tail(conditions))
         IN IF Len(parts) = 2
            THEN LET column == Strip(parts[1], " ")
                     value == Strip(Strip(parts[2], " "), "'")
                 IN <<column \o <<" ", "=", " ">> \o value>> \o rest
            ELSE rest

\* a body that looks for ' and ' before it looks for ' or '
WhereBodyAndFirst(row, header, clause) ==
    IF Contains(clause, AndSep)
    THEN AllSingleCondition(row, header, Split(clause, AndSep))
    ELSE IF Contains(clause, OrSep)
    THEN AnyCondition(row, header, Split(clause, OrSep))
    ELSE AllSingleCondition(row, header, ValidConditions(Split(clause, AndSep)))

\* the body of the try block
WhereBody(row, header, clause) ==
    IF Contains(clause, OrSep)
    THEN AnyCondition(row, header, Split(clause, OrSep))
    ELSE IF Contains(clause, AndSep)
    THEN AllSingleCondition(row, header, Split(clause, AndSep))
    ELSE AllSingleCondition(row, header, ValidConditions(Split(clause, AndSep)))

\* returns val; error is the message of the ValueError the except clause
\* printed ("" when none was raised)
_evaluate_where(row, header, clause) ==
    LET r == WhereBody(row, header, clause) IN
    IF r.raised # "" THEN [val |-> FALSE, error |-> r.raised]
    ELSE [val |-> r.val, error |-> ""]

(***************************************************************************)
(* MyDB.select_from                                                        *)
(***************************************************************************)
\* sys.getsizeof(item) of a str of ASCII characters (CPython, 64 bit)
StrOverhead == 49
GetSizeOf(item) == StrOverhead + Len(item)

\* the default of the parameter memory_limit
DefaultMemoryLimit == 1000000

Star == <<"*">>
CommaSp == <<",", " ">>
Range(seq) == {seq[i] : i \in 1..Len(seq)}

\* ', '.join(columns)
RECURSIVE JoinComma(_)
JoinComma(parts) ==
    IF parts = <<>> THEN <<>>
    ELSE IF Len(parts) = 1 THEN parts[1]
    ELSE parts[1] \o CommaSp \o JoinComma(Tail(parts))

\* the aggregate named in columns_string ("" for None)
AggregateOf(columns_string) ==
    IF Contains(columns_string, <<"m", "i", "n", "(">>) THEN "min"
    ELSE IF Contains(columns_string, <<"m", "a", "x", "(">>) THEN "max"
    ELSE IF Contains(columns_string, <<"a", "v", "g", "(">>) THEN "avg"
    ELSE IF Contains(columns_string, <<"s", "u", "m", "(">>) THEN "sum"
    ELSE IF Contains(columns_string, <<"c", "o", "u", "n", "t", "(">>) THEN "count"
    ELSE ""

\* columns_string.split('(')[1].split(')')[0]
ColumnToAggregate(columns_string) ==
    Split(Split(columns_string, <<"(">>)[2], <<")">>)[1]

\* float(s): the parse of a string of decimal digits; other strings of the
\* model raise ValueError
IsDigit(c) == c \in {"0", "1", "2", "3", "9"}
DigitVal(c) == CASE c = "0" -> 0 [] c = "1" -> 1 [] c = "2" -> 2 [] c = "3" -> 3 [] c = "9" -> 9
FloatParses(s) == s # <<>> /\ \A i \in 1..Len(s) : IsDigit(s[i])

RECURSIVE Float(_)
Float(s) == IF s = <<>> THEN 0 ELSE 10 * Float(SubSeq(s, 1, Len(s) - 1)) + DigitVal(s[Len(s)])

\* tuple(row[col] for col in columns if col in row)
RECURSIVE RowData(_, _, _)
RowData(row, header, cols) ==
    IF cols = <<>> THEN <<>>
    ELSE (IF InSeq(cols[1], header) THEN <<RowGet(row, header, cols[1])>> ELSE <<>>)
         \o RowData(row, header, Tail(cols))

\* sum(sys.getsizeof(item) for item in row_data)
RECURSIVE RowMemory(_)
RowMemory(row_data) ==
    IF row_data = <<>> THEN 0 ELSE GetSizeOf(row_data[1]) + RowMemory(Tail(row_data))

Max(a, b) == IF a >= b THEN a ELSE b
Min(a, b) == IF a <= b THEN a ELSE b

\* for i, col in enumerate(columns): widen max_col_widths[col] to row_data[i]
RECURSIVE Widen(_, _, _, _)
Widen(widths, cols, row_data, i) ==
    IF i > Len(cols) THEN widths
    ELSE Widen(IF i <= Len(row_data)
               THEN [widths EXCEPT ![cols[i]] = Max(@, Len(row_data[i]))]
               ELSE widths,
               cols, row_data, i + 1)

\* the state of the running extremum: None until a value has parsed
Unset == [set |-> FALSE, v |-> 0]

\* the lines select_from prints
NoTable == [columns |-> <<>>, max_col_widths |-> <<>>, data_rows |-> <<>>, memory_usage |-> 0]
NoScalar == [set |-> FALSE, num |-> 0, den |-> 1]
ErrorLine(k, msg) == [kind |-> k, text |-> msg, table |-> NoTable, scalar |-> NoScalar]
TableOut(cols, widths, data_rows, usage) ==
    [kind |-> "table", text |-> "",
     table |-> [columns |-> cols, max_col_widths |-> widths,
                data_rows |-> data_rows, memory_usage |-> usage],
     scalar |-> NoScalar]
ScalarOut(label, value) ==
    [kind |-> "scalar", text |-> label, table |-> NoTable, scalar |-> value]

TableNotExist == "Error: Table does not exist."

\* lines 130-170: the arguments are taken, the file is opened and read
SelectFrom(cols, d, w, m) ==
    /\ pc = "idle"
    /\ distinct' = d
    /\ where_clause' = w
    /\ memory_limit' = m
    /\ aggregate_function' = AggregateOf(JoinComma(cols))
    /\ column_to_aggregate' =
           IF AggregateOf(JoinComma(cols)) # "" THEN ColumnToAggregate(JoinComma(cols))
           ELSE None
    /\ count' = 0 /\ sum_value' = 0 /\ min_value' = Unset /\ max_value' = Unset
    /\ seen_values' = {} /\ memory_usage' = 0 /\ results' = <<>>
    /\ results_src' = <<>> /\ budget_stop' = FALSE
    /\ row_idx' = 1
    /\ UNCHANGED <<tableVars, evaluate_where_counter, callVars, storeVars, chunkVars>>
    /\ IF ~file_exists
       THEN /\ stdout' = Append(stdout, ErrorLine("error", TableNotExist))
            /\ pc' = "returned"
            /\ columns' = cols
            /\ UNCHANGED <<fieldnames, rows_list, max_col_widths>>
       ELSE /\ fieldnames' = (IF table_file = <<>> THEN <<>> ELSE table_file[1])
            /\ rows_list' = (IF table_file = <<>> THEN <<>> ELSE Tail(table_file))
            /\ IF cols = <<Star>> /\ table_file = <<>>
               THEN \* fieldnames is None: iterating it raises TypeError
                    /\ pc' = "crashed"
                    /\ columns' = cols
                    /\ UNCHANGED <<max_col_widths, stdout>>
               ELSE /\ columns' = (IF cols = <<Star>> THEN table_file[1] ELSE cols)
                    /\ max_col_widths' = [c \in Range(columns') |-> Len(c)]
                    /\ pc' = "loop"
                    /\ UNCHANGED stdout

\* the row the loop of line 172 is at
InLoop == pc = "loop" /\ row_idx <= Len(rows_list)
CurRow == rows_list[row_idx]
HasWhere == where_clause # None /\ where_clause # <<>>
WhereResult == _evaluate_where(CurRow, fieldnames, where_clause)
Passes == ~HasWhere \/ WhereResult.val
CurRowData == RowData(CurRow, fieldnames, columns)

\* line 173: the call of _evaluate_where, with what it counts and prints
WhereCall ==
    /\ evaluate_where_counter' =
           IF HasWhere THEN evaluate_where_counter + 1 ELSE evaluate_where_counter
    /\ stdout' = IF HasWhere /\ WhereResult.error # ""
                 THEN Append(stdout, ErrorLine("where_error", WhereResult.error))
                 ELSE stdout

\* lines 173-174: the row does not pass the where clause
RowFilteredOut ==
    /\ InLoop
    /\ ~Passes
    /\ WhereCall
    /\ row_idx' = row_idx + 1
    /\ UNCHANGED <<tableVars, argVars, pc, fieldnames, rows_list, results,
                   seen_values, memory_usage, max_col_widths, aggregate_function,
                   column_to_aggregate, count, sum_value, min_value, max_value,
                   results_src, budget_stop, callVars, storeVars, chunkVars>>

\* an except clause that leaves the loop
AfterParseFailureBreaks(i, n) == n + 1

\* lines 192-193: "continue", the loop goes to the next row
AfterParseFailure(i, n) == i + 1

\* an extremum that starts from 0
RunningMinFromZero(cur, value) == [set |-> TRUE, v |-> Min(cur.v, value)]

\* line 187: value if min_value is None else min(min_value, value)
RunningMin(cur, value) == [set |-> TRUE, v |-> IF cur.set THEN Min(cur.v, value) ELSE value]

\* line 189: value if max_value is None else max(max_value, value)
RunningMax(cur, value) == [set |-> TRUE, v |-> IF cur.set THEN Max(cur.v, value) ELSE value]

\* lines 178-193: the row goes to the aggregate
RowAggregate ==
    /\ InLoop
    /\ Passes
    /\ aggregate_function # ""
    /\ WhereCall
    /\ IF InSeq(column_to_aggregate, fieldnames)
          /\ FloatParses(RowGet(CurRow, fieldnames, column_to_aggregate))
       THEN LET value == Float(RowGet(CurRow, fieldnames, column_to_aggregate)) IN
            /\ count' = IF aggregate_function \in {"count", "avg"} THEN count + 1 ELSE count
            /\ sum_value' = IF aggregate_function \in {"avg", "sum"}
                            THEN sum_value + value ELSE sum_value
            /\ min_value' = IF aggregate_function = "min"
                            THEN RunningMin(min_value, value) ELSE min_value
            /\ max_value' = IF aggregate_function = "max"
                            THEN RunningMax(max_value, value) ELSE max_value
            /\ row_idx' = row_idx + 1
       ELSE \* except (ValueError, KeyError): continue
            /\ UNCHANGED <<count, sum_value, min_value, max_value>>
            /\ row_idx' = AfterParseFailure(row_idx, Len(rows_list))
    /\ UNCHANGED <<tableVars, argVars, pc, fieldnames, rows_list, results,
                   seen_values, memory_usage, max_col_widths, aggregate_function,
                   column_to_aggregate, results_src, budget_stop, callVars, storeVars, chunkVars>>

\* a test that looks at the accumulated footprint alone
OverBudgetIgnoresRow(usage, row_memory, limit) == usage > limit

\* a test that leaves the loop when the row fits exactly
OverBudgetAtLimit(usage, row_memory, limit) == usage + row_memory >= limit

\* line 199: the test that leaves the loop
OverBudget(usage, row_memory, limit) == usage + row_memory > limit

\* lines 196-200: the row's footprint does not fit, the loop is left
RowBudgetBreak ==
    /\ InLoop
    /\ Passes
    /\ aggregate_function = ""
    /\ OverBudget(memory_usage, RowMemory(CurRowData), memory_limit)
    /\ WhereCall
    /\ pc' = "break"
    /\ budget_stop' = TRUE
    /\ UNCHANGED <<tableVars, argVars, fieldnames, rows_list, row_idx, results,
                   seen_values, memory_usage, max_col_widths, aggregate_function,
                   column_to_aggregate, count, sum_value, min_value, max_value,
                   results_src, callVars, storeVars, chunkVars>>

\* a test that forgets the set of tuples seen
EmitsIgnoresSeen(d, row_data, seen) == TRUE

\* line 202: the test that lets a row into the result
Emits(d, row_data, seen) == ~d \/ row_data \notin seen

\* lines 202-209: the row's tuple is added to the result
RowAppend ==
    /\ InLoop
    /\ Passes
    /\ aggregate_function = ""
    /\ ~OverBudget(memory_usage, RowMemory(CurRowData), memory_limit)
    /\ Emits(distinct, CurRowData, seen_values)
    /\ WhereCall
    /\ results' = Append(results, CurRowData)
    /\ results_src' = Append(results_src, row_idx)
    /\ memory_usage' = memory_usage + RowMemory(CurRowData)
    /\ seen_values' = IF distinct THEN seen_values \cup {CurRowData} ELSE seen_values
    /\ max_col_widths' = Widen(max_col_widths, columns, CurRowData, 1)
    /\ row_idx' = row_idx + 1
    /\ UNCHANGED <<tableVars, argVars, pc, fieldnames, rows_list, aggregate_function,
                   column_to_aggregate, count, sum_value, min_value, max_value,
                   budget_stop, callVars, storeVars, chunkVars>>

\* line 202 false: with distinct, a tuple already seen is passed over
RowDuplicate ==
    /\ InLoop
    /\ Passes
    /\ aggregate_function = ""
    /\ ~OverBudget(memory_usage, RowMemory(CurRowData), memory_limit)
    /\ ~Emits(distinct, CurRowData, seen_values)
    /\ WhereCall
    /\ row_idx' = row_idx + 1
    /\ UNCHANGED <<tableVars, argVars, pc, fieldnames, rows_list, results,
                   seen_values, memory_usage, max_col_widths, aggregate_function,
                   column_to_aggregate, count, sum_value, min_value, max_value,
                   results_src, budget_stop, callVars, storeVars, chunkVars>>

\* the loop is over: rows_list is exhausted or the break was taken
LoopLeft == IF pc = "loop" THEN row_idx > Len(rows_list) ELSE pc = "break"

\* a quotient taken over every kind of count
AvgValueUnguarded(sum, n) == [set |-> TRUE, num |-> sum, den |-> n]

\* line 213: sum_value / count if count > 0 else 0, as a fraction
AvgValue(sum, n) ==
    [set |-> TRUE, num |-> IF n > 0 THEN sum ELSE 0, den |-> IF n > 0 THEN n ELSE 1]

\* lines 211-224 and print_table: the result is printed
PrintResult ==
    /\ LoopLeft
    /\ stdout' = Append(stdout,
          IF aggregate_function = "avg"
          THEN ScalarOut("Avg", AvgValue(sum_value, count))
          ELSE IF aggregate_function = "count"
          THEN ScalarOut("Count", [set |-> TRUE, num |-> count, den |-> 1])
          ELSE IF aggregate_function = "sum"
          THEN ScalarOut("Sum", [set |-> TRUE, num |-> sum_value, den |-> 1])
          ELSE IF aggregate_function = "min"
          THEN ScalarOut("Min", [set |-> min_value.set, num |-> min_value.v, den |-> 1])
          ELSE IF aggregate_function = "max"
          THEN ScalarOut("Max", [set |-> max_value.set, num |-> max_value.v, den |-> 1])
          ELSE TableOut(columns, max_col_widths, results, memory_usage))
    /\ pc' = "returned"
    /\ UNCHANGED <<tableVars, argVars, localVarsButStdout, callVars, storeVars, chunkVars>>

\* What select_from prints for a projection over the rows given, the other
\* arguments and the header being those of the state: the loop of lines
\* 172-209 and the print of line 224 as one function of the rows.
ScanStart ==
    [results |-> <<>>, usage |-> 0, seen |-> {},
     widths |-> [c \in Range(columns) |-> Len(c)],
     printed |-> <<>>, stopped |-> FALSE]

RECURSIVE ScanOver(_, _, _)
ScanOver(st, rows, i) ==
    IF i > Len(rows) \/ st.stopped THEN st
    ELSE LET w == IF HasWhere THEN _evaluate_where(rows[i], fieldnames, where_clause)
                  ELSE [val |-> TRUE, error |-> ""]
             pr == IF w.error # "" THEN Append(st.printed, ErrorLine("where_error", w.error))
                   ELSE st.printed
             row_data == RowData(rows[i], fieldnames, columns)
         IN IF ~w.val THEN ScanOver([st EXCEPT !.printed = pr], rows, i + 1)
            ELSE IF OverBudget(st.usage, RowMemory(row_data), memory_limit)
            THEN [st EXCEPT !.printed = pr, !.stopped = TRUE]
            ELSE IF Emits(distinct, row_data, st.seen)
            THEN ScanOver([results |-> Append(st.results, row_data),
                           usage |-> st.usage + RowMemory(row_data),
                           seen |-> IF distinct THEN st.seen \cup {row_data} ELSE st.seen,
                           widths |-> Widen(st.widths, columns, row_data, 1),
                           printed |-> pr, stopped |-> FALSE], rows, i + 1)
            ELSE ScanOver([st EXCEPT !.printed = pr], rows, i + 1)

PrintedBy(st) == Append(st.printed, TableOut(columns, st.widths, st.results, st.usage))

(***************************************************************************)
(* Calls of the methods without side effects, on arguments drawn from      *)
(* bounded sets.  A where clause is drawn as its leaves and the words      *)
(* between them, and given to the method as the text a query carries.      *)
(***************************************************************************)
X == <<"x">>
Y == <<"y">>
Z == <<"z">>        \* a column no table of the model has
Header == <<X, Y>>

ValidOps == {<<"=">>, <<"=", "=">>, <<"!", "=">>, <<"<", ">">>,
             <<"<">>, <<"<", "=">>, <<">">>, <<">", "=">>}
BadOp == <<"~">>

Lit1 == <<"1">>
Lit9 == <<"9">>
Lit10 == <<"1", "0">>

\* a leaf as written: form "full" is column operator literal, "no_value"
\* lacks the literal, "bare" is the column alone
Leaf(c, o, l, q, f) == [col |-> c, op |-> o, lit |-> l, quoted |-> q, form |-> f]

LeafText(leaf) ==
    IF leaf.form = "bare" THEN leaf.col
    ELSE IF leaf.form = "no_value" THEN leaf.col \o <<" ">> \o leaf.op
    ELSE leaf.col \o <<" ">> \o leaf.op \o <<" ">>
         \o (IF leaf.quoted THEN <<"'">> \o leaf.lit \o <<"'">> ELSE leaf.lit)

\* the text of a clause: the leaves with " or " / " and " between them
RECURSIVE ClauseText(_, _)
ClauseText(leaves, seps) ==
    IF Len(leaves) = 1 THEN LeafText(leaves[1])
    ELSE LeafText(leaves[1])
         \o (IF seps[1] = "or" THEN OrSep ELSE AndSep)
         \o ClauseText(Tail(leaves), Tail(seps))

FullLeaves ==
    {Leaf(c, o, l, q, "full") :
        c \in {X, Y, Z}, o \in ValidOps \cup {BadOp}, l \in {Lit1, Lit9, Lit10},
        q \in BOOLEAN}
    \cup {Leaf(c, o, Lit1, FALSE, "no_value") : c \in {X, Z}, o \in {<<"=">>, <<"<">>, BadOp}}
    \cup {Leaf(c, <<"=">>, Lit1, FALSE, "bare") : c \in {X, Z}}

PairLeaves ==
    {Leaf(c, o, l, FALSE, "full") :
        c \in {X, Y, Z}, o \in {<<"=">>, <<"<">>, <<"!", "=">>, <<">", "=">>, BadOp},
        l \in {Lit1, Lit9}}
    \cup {Leaf(X, <<"=">>, Lit1, FALSE, "no_value")}

SmallLeaves ==
    {Leaf(X, <<"=">>, Lit1, FALSE, "full"), Leaf(X, <<"<">>, Lit9, FALSE, "full"),
     Leaf(Y, <<"!", "=">>, Lit1, TRUE, "full"), Leaf(Y, <<">", "=">>, Lit9, FALSE, "full"),
     Leaf(Z, <<"=">>, Lit1, FALSE, "full")}

LeavesFor(n) == IF n = 1 THEN FullLeaves ELSE IF n = 2 THEN PairLeaves ELSE SmallLeaves

CallRows == {<<a, b>> : a \in {Lit1, Lit9, Lit10}, b \in {Lit1, Lit9}}

LikeValueChars == {"a", "A"}
LikePatternChars == {"a", "A", "%", "_"}
SeqsUpTo(S, n) == UNION {[1..k -> S] : k \in 0..n}

\* the pairs named in the description of the matcher
LikeExamples ==
    {<<<<"a", "X", "b", "X", "c">>, <<"a", "%", "b", "%", "c">>>>,
     <<<<"a", "b", "c">>, <<"%", "%", "%">>>>,
     <<<<"a", "b", "c">>, <<"a", "_", "c">>>>,
     <<<<"a", "b", "c">>, <<"a", "_", "_">>>>,
     <<<<"a", "b", "c">>, <<"_", "b", "_">>>>}

NoCall == [fn |-> "", row |-> <<>>, header |-> <<>>, leaves |-> <<>>, seps |-> <<>>,
           text |-> <<>>, value |-> <<>>, pattern |-> <<>>]
Pending == [state |-> "pending", val |-> FALSE, raised |-> "", printed |-> ""]

\* the calls drawn: of _evaluate_where on a clause of n leaves, of the two
\* leaf evaluators on one leaf, of the matcher on a value and a pattern
IsWhereCall(n) ==
    \E r \in CallRows, ls \in [1..n -> LeavesFor(n)], ss \in [1..(n - 1) -> {"or", "and"}] :
        call = [NoCall EXCEPT !.fn = "_evaluate_where", !.row = r, !.header = Header,
                              !.leaves = ls, !.seps = ss, !.text = ClauseText(ls, ss)]

IsLeafCall ==
    \E f \in {"_evaluate_condition", "_evaluate_single_condition"},
       r \in CallRows, l \in FullLeaves :
        call = [NoCall EXCEPT !.fn = f, !.row = r, !.header = Header,
                              !.leaves = <<l>>, !.text = LeafText(l)]

IsLikeCall ==
    \E vp \in (SeqsUpTo(LikeValueChars, MaxValueLen)
                    \X SeqsUpTo(LikePatternChars, MaxPatternLen)) \cup LikeExamples :
        call = [NoCall EXCEPT !.fn = "_match_like_pattern",
                              !.value = vp[1], !.pattern = vp[2]]

\* a leaf "column like 'pattern'", the word in one of three letter cases,
\* alone or on one side of a comparison of y
LikeWords == {<<"l", "i", "k", "e">>, <<"L", "I", "K", "E">>, <<"L", "i", "k", "e">>}
LikeLeafPatterns == {<<"a", "%">>, <<"%", "b">>, <<"_">>}
LikeLeaves == {Leaf(X, w, p, TRUE, "full") : w \in LikeWords, p \in LikeLeafPatterns}
LikeRows == {<<v, Lit1>> : v \in {<<"a">>, <<"a", "b">>, <<"b">>}}
BesideLike == {Leaf(Y, <<"=">>, Lit1, FALSE, "full"), Leaf(Y, <<"=">>, Lit9, FALSE, "full")}

IsLikeLeafCall ==
    \E r \in LikeRows, l \in LikeLeaves :
        \/ call = [NoCall EXCEPT !.fn = "_evaluate_where", !.row = r, !.header = Header,
                                 !.leaves = <<l>>, !.text = LeafText(l)]
        \/ \E c \in BesideLike, s \in {"or", "and"} : \E ls \in {<<l, c>>, <<c, l>>} :
               call = [NoCall EXCEPT !.fn = "_evaluate_where", !.row = r, !.header = Header,
                                     !.leaves = ls, !.seps = <<s>>,
                                     !.text = ClauseText(ls, <<s>>)]

\* a leaf whose literal is written inside two layers of quotes: x = ''1''
Quote(s) == <<"'">> \o s \o <<"'">>
TwiceQuotedText(leaf) ==
    leaf.col \o <<" ">> \o leaf.op \o <<" ">> \o Quote(Quote(leaf.lit))
TwiceQuotedLeaves ==
    {Leaf(c, o, l, TRUE, "full") :
        c \in {X, Y}, o \in {<<"=">>, <<"!", "=">>, <<"<">>, <<">", "=">>},
        l \in {Lit1, Lit9, Lit10}}

IsTwiceQuotedCall ==
    \E f \in {"_evaluate_condition", "_evaluate_single_condition"},
       r \in CallRows, l \in TwiceQuotedLeaves :
        call = [NoCall EXCEPT !.fn = f, !.row = r, !.header = Header,
                              !.leaves = <<l>>, !.text = TwiceQuotedText(l)]

Returned(r) == [state |-> IF r.raised = "" THEN "returned" ELSE "raised",
                val |-> r.val, raised |-> r.raised, printed |-> ""]

CallEvaluateWhere ==
    /\ call.fn = "_evaluate_where" /\ ret.state = "pending"
    /\ LET w == _evaluate_where(call.row, call.header, call.text) IN
       ret' = [state |-> "returned", val |-> w.val, raised |-> "", printed |-> w.error]
    /\ UNCHANGED <<tableVars, argVars, pc, localVars, call, storeVars, chunkVars>>

CallEvaluateCondition ==
    /\ call.fn = "_evaluate_condition" /\ ret.state = "pending"
    /\ ret' = Returned(_evaluate_condition(call.row, call.header, call.text))
    /\ UNCHANGED <<tableVars, argVars, pc, localVars, call, storeVars, chunkVars>>

CallEvaluateSingleCondition ==
    /\ call.fn = "_evaluate_single_condition" /\ ret.state = "pending"
    /\ ret' = Returned(_evaluate_single_condition(call.row, call.header, call.text))
    /\ UNCHANGED <<tableVars, argVars, pc, localVars, call, storeVars, chunkVars>>

CallMatchLikePattern ==
    /\ call.fn = "_match_like_pattern" /\ ret.state = "pending"
    /\ ret' = Returned(Return(_match_like_pattern(call.value, call.pattern)))
    /\ UNCHANGED <<tableVars, argVars, pc, localVars, call, storeVars, chunkVars>>

(***************************************************************************)
(* MyDB.create_db, use_db, create_table, drop_table, drop_database and     *)
(* insert_into_table.  The object is made over the root directory          *)
(* "dataset"; the model has one database name, "d", and one table name,    *)
(* "t": the directory dataset/d and the file dataset/d/t.csv, which        *)
(* select_from reads under the table identifier "d/t" (its path is taken   *)
(* from the root directory), and the file dataset/t.csv beside the         *)
(* directory.                                                              *)
(***************************************************************************)
MaxCalls == 6          \* calls of the methods in one run

DbDir == "dataset/d"   \* os.path.join(self.db_root_directory, dbname)
NoAttribute == "no attribute"    \* self.current_db before any assignment

Message(msg) == ErrorLine("message", msg)

\* no select_from is running and the run has calls left
StoreReady == pc = "idle" /\ Len(stdout) < MaxCalls

create_db ==
    /\ StoreReady
    /\ IF ~db_exists
       THEN /\ db_exists' = TRUE
            /\ stdout' = Append(stdout, Message("Database created successfully."))
       ELSE /\ UNCHANGED db_exists
            /\ stdout' = Append(stdout, Message("Database already exists."))
    /\ UNCHANGED <<tableVars, argVars, pc, localVarsButStdout, callVars,
                   current_db, inserted, root_table_exists, chunkVars>>

use_db ==
    /\ StoreReady
    /\ IF db_exists
       THEN /\ current_db' = DbDir
            /\ stdout' = Append(stdout, Message("Switched to database."))
       ELSE /\ UNCHANGED current_db
            /\ stdout' = Append(stdout, Message("Database does not exist."))
    /\ UNCHANGED <<tableVars, argVars, pc, localVarsButStdout, callVars,
                   db_exists, inserted, root_table_exists, chunkVars>>

RootDir == "dataset"   \* self.db_root_directory
NoDatabaseSelected == "No database selected. Use 'use db [dbname]!' to select a database."

\* not self.current_db: of the paths, only the empty one is false
NotSet(dir) == dir = ""

\* os.path.basename(self.current_db) in a message of create_table
TableCreated(dir) ==
    IF dir = RootDir THEN "Table created in database 'dataset'."
    ELSE "Table created in database."
TableExists(dir) ==
    IF dir = RootDir THEN "Table already exists in database 'dataset'."
    ELSE "Table already exists in database."
\* and in a message of drop_table
TableRemoved(dir) ==
    IF dir = RootDir THEN "Table has been removed from database 'dataset'."
    ELSE "Table has been removed from database."
TableNotInDatabase(dir) ==
    IF dir = RootDir THEN "Table does not exist in the database 'dataset'."
    ELSE "Table does not exist in the database."

\* reading self.current_db before use_db has set it raises AttributeError;
\* the table path is taken under current_db, which is the database
\* directory or, after drop_database, the root directory
create_table ==
    /\ StoreReady
    /\ IF current_db = NoAttribute
       THEN /\ pc' = "crashed"
            /\ UNCHANGED <<tableVars, stdout, inserted, root_table_exists>>
       ELSE /\ UNCHANGED pc
            /\ IF NotSet(current_db)
               THEN /\ UNCHANGED <<tableVars, inserted, root_table_exists>>
                    /\ stdout' = Append(stdout, Message(NoDatabaseSelected))
               ELSE IF current_db = RootDir
               THEN /\ root_table_exists' = TRUE
                    /\ UNCHANGED <<tableVars, inserted>>
                    /\ stdout' = Append(stdout,
                          Message(IF ~root_table_exists THEN TableCreated(current_db)
                                  ELSE TableExists(current_db)))
               ELSE IF ~file_exists
               THEN /\ file_exists' = TRUE
                    /\ table_file' = <<>>
                    /\ inserted' = <<>>
                    /\ UNCHANGED root_table_exists
                    /\ stdout' = Append(stdout, Message(TableCreated(current_db)))
               ELSE /\ UNCHANGED <<tableVars, inserted, root_table_exists>>
                    /\ stdout' = Append(stdout, Message(TableExists(current_db)))
    /\ UNCHANGED <<argVars, localVarsButStdout, callVars, db_exists, current_db,
                   chunkVars>>

drop_table ==
    /\ StoreReady
    /\ IF current_db = NoAttribute
       THEN /\ pc' = "crashed"
            /\ UNCHANGED <<tableVars, stdout, inserted, root_table_exists>>
       ELSE /\ UNCHANGED pc
            /\ IF NotSet(current_db)
               THEN /\ UNCHANGED <<tableVars, inserted, root_table_exists>>
                    /\ stdout' = Append(stdout, Message(NoDatabaseSelected))
               ELSE IF current_db = RootDir
               THEN /\ root_table_exists' = FALSE
                    /\ UNCHANGED <<tableVars, inserted>>
                    /\ stdout' = Append(stdout,
                          Message(IF root_table_exists THEN TableRemoved(current_db)
                                  ELSE TableNotInDatabase(current_db)))
               ELSE IF file_exists
               THEN \* os.remove(table_path)
                    /\ file_exists' = FALSE
                    /\ table_file' = <<>>
                    /\ inserted' = <<>>
                    /\ UNCHANGED root_table_exists
                    /\ stdout' = Append(stdout, Message(TableRemoved(current_db)))
               ELSE /\ UNCHANGED <<tableVars, inserted, root_table_exists>>
                    /\ stdout' = Append(stdout, Message(TableNotInDatabase(current_db)))
    /\ UNCHANGED <<argVars, localVarsButStdout, callVars, db_exists, current_db,
                   chunkVars>>

\* shutil.rmtree removes the directory with the table file in it; the
\* comparison of line 68 reads self.current_db, which raises AttributeError
\* when use_db has not set it, after the directory is gone and the message
\* is printed
drop_database ==
    /\ StoreReady
    /\ IF db_exists
       THEN /\ db_exists' = FALSE
            /\ file_exists' = FALSE
            /\ table_file' = <<>>
            /\ inserted' = <<>>
            /\ stdout' = Append(stdout, Message("Database has been deleted."))
            /\ IF current_db = NoAttribute
               THEN pc' = "crashed" /\ UNCHANGED current_db
               ELSE /\ UNCHANGED pc
                    /\ current_db' = IF current_db = DbDir THEN RootDir ELSE current_db
       ELSE /\ UNCHANGED <<tableVars, pc, db_exists, current_db, inserted>>
            /\ stdout' = Append(stdout, Message("Database does not exist."))
    /\ UNCHANGED <<argVars, localVarsButStdout, callVars, root_table_exists, chunkVars>>

insert_into_table(values) ==
    /\ StoreReady
    /\ IF current_db = NoAttribute
       THEN /\ pc' = "crashed"
            /\ UNCHANGED <<tableVars, stdout, inserted>>
       ELSE /\ UNCHANGED pc
            /\ IF NotSet(current_db) \/ current_db = RootDir
               THEN /\ UNCHANGED <<tableVars, inserted>>
                    /\ stdout' = Append(stdout, Message(NoDatabaseSelected))
               ELSE IF ~file_exists
               THEN /\ UNCHANGED <<tableVars, inserted>>
                    /\ stdout' = Append(stdout, Message("Table does not exist."))
               ELSE \* writer.writerow(values) on the file opened for append
                    /\ table_file' = Append(table_file, values)
                    /\ inserted' = Append(inserted, values)
                    /\ UNCHANGED file_exists
                    /\ stdout' = Append(stdout, Message("Data added to table."))
    /\ UNCHANGED <<argVars, localVarsButStdout, callVars, db_exists, current_db,
                   root_table_exists, chunkVars>>

(***************************************************************************)
(* MyDB.estimate_row_size, chunk_csv and _save_chunk.  The file is read    *)
(* with csv.reader, which gives every line of it as a row, the header line *)
(* like the others.                                                        *)
(***************************************************************************)
SampleSize == 10       \* range(10) in estimate_row_size

\* sys.getsizeof(row) of a list that csv.reader filled by appending n fields
\* (CPython 3.11, 64 bit): 56 bytes and 8 for each slot allotted, the slots
\* allotted in the steps 4, 8, 16, 24, ...
ListOverhead == 56
SlotSize == 8

RECURSIVE Allotted(_)
Allotted(n) ==
    IF n = 0 THEN 0
    ELSE LET before == Allotted(n - 1) IN
         IF n > before THEN ((n + (n \div 8) + 6) \div 4) * 4 ELSE before

GetSizeOfList(row) == ListOverhead + SlotSize * Allotted(Len(row))

\* sum(sys.getsizeof(row) for row in sample_rows)
RECURSIVE SampleSizeOf(_)
SampleSizeOf(sample_rows) ==
    IF sample_rows = <<>> THEN 0
    ELSE GetSizeOfList(sample_rows[1]) + SampleSizeOf(Tail(sample_rows))

StopIteration == "StopIteration"

\* next(reader) raises StopIteration when the file has no tenth line
estimate_row_size(lines) ==
    IF Len(lines) < SampleSize THEN [raised |-> StopIteration, val |-> 0]
    ELSE [raised |-> "", val |-> SampleSizeOf(SubSeq(lines, 1, SampleSize)) \div SampleSize]

FileNotExist == "Error: File does not exist."

ChunkSaved(chunk_number) ==
    [kind |-> "chunk_saved", text |-> "", table |-> NoTable,
     scalar |-> [set |-> TRUE, num |-> chunk_number, den |-> 1]]

\* lines 100-112: the file is looked for, the row size estimated, the file
\* opened
chunk_csv(m) ==
    /\ pc = "idle" /\ chunk_pc = "idle"
    /\ memory_limit' = m
    /\ UNCHANGED <<tableVars, columns, distinct, where_clause, pc, localVarsButStdout,
                   callVars, storeVars, chunk_files>>
    /\ IF ~file_exists
       THEN /\ stdout' = Append(stdout, ErrorLine("error", FileNotExist))
            /\ chunk_pc' = "returned"
            /\ UNCHANGED <<row_size, rows_per_chunk, chunk_count, chunk, chunk_row>>
       ELSE LET estimate == estimate_row_size(table_file) IN
            /\ UNCHANGED stdout
            /\ IF estimate.raised # ""
               THEN /\ chunk_pc' = "raised"
                    /\ UNCHANGED <<row_size, rows_per_chunk, chunk_count, chunk, chunk_row>>
               ELSE /\ row_size' = estimate.val
                    /\ rows_per_chunk' = m \div estimate.val
                    /\ chunk_count' = 0
                    /\ chunk' = <<>>
                    /\ chunk_row' = 1
                    /\ chunk_pc' = "loop"

\* a test that waits for the chunk to hold just rows_per_chunk rows
ChunkFullOnEqual(n, per_chunk) == n = per_chunk

\* line 115: len(chunk) >= rows_per_chunk
ChunkFull(n, per_chunk) == n >= per_chunk

\* _save_chunk: the chunk file of that number is written anew
SaveChunk(chunk_number, chunk_data) ==
    /\ chunk_files' = (chunk_number :> chunk_data) @@ chunk_files
    /\ stdout' = Append(stdout, ChunkSaved(chunk_number))

\* lines 113-118: a row is read and put in the chunk, a full chunk is saved
ChunkRow ==
    /\ chunk_pc = "loop"
    /\ chunk_row <= Len(table_file)
    /\ chunk_row' = chunk_row + 1
    /\ LET filled == Append(chunk, table_file[chunk_row]) IN
       IF ChunkFull(Len(filled), rows_per_chunk)
       THEN /\ SaveChunk(chunk_count, filled)
            /\ chunk' = <<>>
            /\ chunk_count' = chunk_count + 1
       ELSE /\ chunk' = filled
            /\ UNCHANGED <<chunk_count, chunk_files, stdout>>
    /\ UNCHANGED <<tableVars, argVars, pc, localVarsButStdout, callVars, storeVars,
                   chunk_pc, row_size, rows_per_chunk>>

\* lines 120-121: the file is read, the rows left over are saved
ChunkLast ==
    /\ chunk_pc = "loop"
    /\ chunk_row > Len(table_file)
    /\ chunk_pc' = "returned"
    /\ IF chunk # <<>>
       THEN SaveChunk(chunk_count, chunk)
       ELSE UNCHANGED <<chunk_files, stdout>>
    /\ UNCHANGED <<tableVars, argVars, pc, localVarsButStdout, callVars, storeVars,
                   row_size, rows_per_chunk, chunk_count, chunk, chunk_row>>

(***************************************************************************)
(* The specifications.                                                     *)
(***************************************************************************)
RowKinds == {<<Lit1, Lit1>>, <<Lit1, Lit9>>, <<Lit10, Lit1>>}
TableFiles == {<<>>} \cup {<<Header>> \o rs : rs \in SeqsUpTo(RowKinds, MaxRows)}

CountX == <<"c", "o", "u", "n", "t", "(", "x", ")">>
MaxY == <<"m", "a", "x", "(", "y", ")">>
ColumnArgs == {<<Star>>, <<X>>, <<X, Y>>, <<X, Z>>, <<CountX>>, <<MaxY>>}

WhereArgs ==
    {None,
     ClauseText(<<Leaf(X, <<"=">>, Lit1, FALSE, "full")>>, <<>>),
     ClauseText(<<Leaf(X, <<">">>, Lit1, FALSE, "full")>>, <<>>),
     ClauseText(<<Leaf(Z, <<"=">>, Lit1, FALSE, "full")>>, <<>>),
     ClauseText(<<Leaf(X, <<"=">>, Lit1, FALSE, "no_value")>>, <<>>),
     ClauseText(<<Leaf(X, <<"=">>, Lit1, FALSE, "full"),
                  Leaf(Y, BadOp, Lit1, FALSE, "full")>>, <<"or">>),
     ClauseText(<<Leaf(Y, <<"=">>, Lit9, FALSE, "full"),
                  Leaf(X, <<"=">>, Lit1, FALSE, "full")>>, <<"and">>)}

MemoryLimits == {49, 101, 160, DefaultMemoryLimit}

SelectIdle ==
    /\ pc = "idle"
    /\ columns = <<>> /\ distinct = FALSE /\ where_clause = None /\ memory_limit = 0
    /\ fieldnames = <<>> /\ rows_list = <<>> /\ row_idx = 1
    /\ results = <<>> /\ seen_values = {} /\ memory_usage = 0
    /\ max_col_widths = <<>>
    /\ aggregate_function = "" /\ column_to_aggregate = None
    /\ count = 0 /\ sum_value = 0 /\ min_value = Unset /\ max_value = Unset
    /\ evaluate_where_counter = 0
    /\ stdout = <<>>
    /\ results_src = <<>> /\ budget_stop = FALSE

\* no database directory yet; __init__ does not set current_db
StoreIdle ==
    /\ db_exists = FALSE /\ current_db = NoAttribute /\ inserted = <<>>
    /\ root_table_exists = FALSE

\* chunk_csv has not been called and no chunk file exists
ChunkIdle ==
    /\ chunk_pc = "idle"
    /\ row_size = 0 /\ rows_per_chunk = 0 /\ chunk_count = 0
    /\ chunk = <<>> /\ chunk_row = 1 /\ chunk_files = <<>>

\* a table file, or none, and no query yet
Init ==
    /\ \/ file_exists = FALSE /\ table_file = <<>>
       \/ file_exists = TRUE /\ table_file \in TableFiles
    /\ SelectIdle
    /\ call = NoCall /\ ret = Pending
    /\ StoreIdle /\ ChunkIdle

Next ==
    \/ \E cols \in ColumnArgs, d \in BOOLEAN, w \in WhereArgs, m \in MemoryLimits :
           SelectFrom(cols, d, w, m)
    \/ RowFilteredOut
    \/ RowAggregate
    \/ RowBudgetBreak
    \/ RowAppend
    \/ RowDuplicate
    \/ PrintResult

Spec == Init /\ [][Next]_vars

\* one call of a method of the predicate evaluator or of the matcher
InitCalls ==
    /\ file_exists = FALSE /\ table_file = <<>>
    /\ SelectIdle
    /\ \/ \E n \in 1..MaxLeaves : IsWhereCall(n)
       \/ IsLeafCall
       \/ IsLikeCall
       \/ IsLikeLeafCall
       \/ IsTwiceQuotedCall
    /\ ret = Pending
    /\ StoreIdle /\ ChunkIdle

NextCalls ==
    \/ CallEvaluateWhere
    \/ CallEvaluateCondition
    \/ CallEvaluateSingleCondition
    \/ CallMatchLikePattern

SpecCalls == InitCalls /\ [][NextCalls]_vars

\* a database and a table made and filled by the object, then read whole
InsertValues == {<<Lit1, Lit9>>, <<Lit9, Lit1>>}

InitStore ==
    /\ file_exists = FALSE /\ table_file = <<>>
    /\ SelectIdle
    /\ call = NoCall /\ ret = Pending
    /\ StoreIdle /\ ChunkIdle

NextStore ==
    \/ create_db
    \/ use_db
    \/ create_table
    \/ drop_table
    \/ drop_database
    \/ \E values \in InsertValues : insert_into_table(values)
    \/ SelectFrom(<<Star>>, FALSE, None, DefaultMemoryLimit)
    \/ RowAppend
    \/ PrintResult

SpecStore == InitStore /\ [][NextStore]_vars

\* a table file of a header line and up to MaxChunkRows rows, cut in chunks
MaxChunkRows == 25

DigitChar(d) ==
    CASE d = 0 -> "0" [] d = 1 -> "1" [] d = 2 -> "2" [] d = 3 -> "3" [] d = 4 -> "4"
      [] d = 5 -> "5" [] d = 6 -> "6" [] d = 7 -> "7" [] d = 8 -> "8" [] d = 9 -> "9"

\* str(n)
RECURSIVE NumStr(_)
NumStr(n) == IF n < 10 THEN <<DigitChar(n)>> ELSE Append(NumStr(n \div 10), DigitChar(n % 10))

\* a file of width fields a line: the header and rows 1..n, each row holding
\* its number, or all rows alike
ChunkTable(n, width, alike) ==
    <<[i \in 1..width |-> <<"h">> \o NumStr(i)]>>
    \o [k \in 1..n |-> [i \in 1..width |-> IF alike THEN Lit1 ELSE NumStr(k)]]

ChunkTables ==
    {<<>>} \cup {ChunkTable(n, width, alike) :
                    n \in 0..MaxChunkRows, width \in {2, 5}, alike \in BOOLEAN}

ChunkLimits == {50, 88, 200, 880, 1200, DefaultMemoryLimit}

InitChunk ==
    /\ \/ file_exists = FALSE /\ table_file = <<>>
       \/ file_exists = TRUE /\ table_file \in ChunkTables
    /\ SelectIdle
    /\ call = NoCall /\ ret = Pending
    /\ StoreIdle /\ ChunkIdle

NextChunk ==
    \/ \E m \in ChunkLimits : chunk_csv(m)
    \/ ChunkRow
    \/ ChunkLast

SpecChunk == InitChunk /\ [][NextChunk]_vars

\* queries of one aggregate over tables that hold values that are no numbers
LitA == <<"a">>
Lit3 == <<"3">>
AggregateRowKinds == {<<Lit1, LitA>>, <<LitA, LitA>>, <<Lit3, LitA>>, <<Lit10, Lit9>>}
AggregateTables == {<<Header>> \o rs : rs \in SeqsUpTo(AggregateRowKinds, MaxRows)}

AggregateCall(fn, col) == fn \o <<"(">> \o col \o <<")">>
AggregateArgs ==
    {<<AggregateCall(fn, col)>> :
        fn \in {<<"c", "o", "u", "n", "t">>, <<"a", "v", "g">>, <<"s", "u", "m">>,
                <<"m", "i", "n">>, <<"m", "a", "x">>},
        col \in {X, Y, Z}}

AggregateWheres ==
    {None,
     ClauseText(<<Leaf(Y, <<"=">>, LitA, FALSE, "full")>>, <<>>),
     ClauseText(<<Leaf(Z, <<"=">>, Lit1, FALSE, "full")>>, <<>>)}

InitAggregates ==
    /\ file_exists = TRUE /\ table_file \in AggregateTables
    /\ SelectIdle
    /\ call = NoCall /\ ret = Pending
    /\ StoreIdle /\ ChunkIdle

NextAggregates ==
    \/ \E cols \in AggregateArgs, w \in AggregateWheres :
           SelectFrom(cols, FALSE, w, DefaultMemoryLimit)
    \/ RowFilteredOut
    \/ RowAggregate
    \/ PrintResult

SpecAggregates == InitAggregates /\ [][NextAggregates]_vars

(***************************************************************************)
(* What the description says a predicate means, stated on the leaves as    *)
(* drawn.                                                                  *)
(***************************************************************************)
\* a < b in the order of text: at the first place where they differ a has
\* the smaller character, or a ends there
TextLess(a, b) ==
    \E k \in 1..Len(b) :
        /\ Len(a) >= k - 1
        /\ SubSeq(a, 1, k - 1) = SubSeq(b, 1, k - 1)
        /\ (Len(a) = k - 1 \/ Ord(a[k]) < Ord(b[k]))

\* the comparison of text v with literal l under operator op
Compares(v, op, l) ==
    CASE op \in {<<"=">>, <<"=", "=">>} -> v = l
      [] op \in {<<"!", "=">>, <<"<", ">">>} -> v # l
      [] op = <<"<">> -> TextLess(v, l)
      [] op = <<"<", "=">> -> TextLess(v, l) \/ v = l
      [] op = <<">">> -> TextLess(l, v)
      [] op = <<">", "=">> -> TextLess(l, v) \/ v = l

ValueOf(row, header, c) == row[CHOOSE i \in 1..Len(header) : header[i] = c]

WellFormed(leaf, header) ==
    leaf.form = "full" /\ leaf.col \in Range(header) /\ leaf.op \in ValidOps

LeafHolds(row, header, leaf) == Compares(ValueOf(row, header, leaf.col), leaf.op, leaf.lit)

WhereReturned == call.fn = "_evaluate_where" /\ ret.state = "returned"
AllWellFormed == \A i \in 1..Len(call.leaves) : WellFormed(call.leaves[i], call.header)
JoinedOnlyBy(word) ==
    Len(call.leaves) >= 2 /\ \A i \in 1..Len(call.seps) : call.seps[i] = word

\* C1: for a where clause that is one well-formed leaf, _evaluate_where
\* returns, for each of the eight operators, the comparison of the row's value
\* of the column with the literal.
C1_SingleLeafIsItsComparison ==
    (WhereReturned /\ Len(call.leaves) = 1 /\ AllWellFormed)
        => ret.val = LeafHolds(call.row, call.header, call.leaves[1])

\* the classic wildcard semantics: '%' takes any number of characters, '_'
\* takes one, any other character takes itself
RECURSIVE Wildcard(_, _)
Wildcard(v, p) ==
    IF p = <<>> THEN v = <<>>
    ELSE IF p[1] = "%" THEN \E k \in 0..Len(v) : Wildcard(Tail2(v, k), Tail(p))
    ELSE v # <<>> /\ (p[1] = "_" \/ p[1] = v[1]) /\ Wildcard(Tail(v), Tail(p))

\* the pattern with each run of '%' written as one '%'
RECURSIVE CollapsePercent(_)
CollapsePercent(p) ==
    IF Len(p) < 2 THEN p
    ELSE IF p[1] = "%" /\ p[2] = "%" THEN CollapsePercent(Tail(p))
    ELSE <<p[1]>> \o CollapsePercent(Tail(p))

LikeReturned == call.fn = "_match_like_pattern" /\ ret.state = "returned"

\* C2: _match_like_pattern(value, pattern) is true exactly when value matches
\* pattern under the classic wildcard semantics; a run of '%' behaves as one
\* '%', the pattern "%" matches every value and the empty pattern matches
\* only the empty value.
C2_MatchIsWildcardSemantics ==
    LikeReturned =>
        /\ ret.val = Wildcard(call.value, call.pattern)
        /\ ret.val = Wildcard(call.value, CollapsePercent(call.pattern))
        /\ (call.pattern = <<"%">> => ret.val)
        /\ (call.pattern = <<>> => (ret.val <=> call.value = <<>>))

\* C2 witness: "aXbXc" has been matched against "a%b%c" and found to match.
C2_Witness ==
    /\ LikeReturned
    /\ call.value = <<"a", "X", "b", "X", "c">>
    /\ call.pattern = <<"a", "%", "b", "%", "c">>
    /\ ret.val

\* C3: a clause of well-formed leaves joined only by ' or ' is true for a row
\* iff at least one leaf is true for it; joined only by ' and ', iff every
\* leaf is; no error is printed.
C3_OrIsAnyAndIsAll ==
    (WhereReturned /\ AllWellFormed) =>
        /\ JoinedOnlyBy("or") =>
              /\ ret.val = (\E i \in 1..Len(call.leaves) :
                               LeafHolds(call.row, call.header, call.leaves[i]))
              /\ ret.printed = ""
        /\ JoinedOnlyBy("and") =>
              /\ ret.val = (\A i \in 1..Len(call.leaves) :
                               LeafHolds(call.row, call.header, call.leaves[i]))
              /\ ret.printed = ""

\* C3 witness: an ' or ' clause of three leaves was found true for a row on
\* which only its last leaf is true.
C3_Witness ==
    /\ WhereReturned /\ AllWellFormed /\ JoinedOnlyBy("or")
    /\ Len(call.leaves) = 3
    /\ ~LeafHolds(call.row, call.header, call.leaves[1])
    /\ ~LeafHolds(call.row, call.header, call.leaves[2])
    /\ LeafHolds(call.row, call.header, call.leaves[3])
    /\ ret.val

\* the leaves of a clause in its pieces between the ' or ' words
RECURSIVE OrPieces(_, _)
OrPieces(leaves, seps) ==
    IF Len(leaves) = 1 THEN <<leaves>>
    ELSE LET rest == OrPieces(Tail(leaves), Tail(seps)) IN
         IF seps[1] = "or" THEN <<<<leaves[1]>>>> \o rest
         ELSE <<<<leaves[1]>> \o rest[1]>> \o Tail(rest)

AllAnd(n) == [i \in 1..n |-> "and"]

\* a piece read as one leaf: the column and operator of its first leaf, and
\* for literal all the text after the operator, outer quotes removed
PieceLiteral(piece) ==
    Strip(Tail2(ClauseText(piece, AllAnd(Len(piece) - 1)),
                Len(piece[1].col) + Len(piece[1].op) + 2), "'")

PieceHolds(row, header, piece) ==
    Compares(ValueOf(row, header, piece[1].col), piece[1].op, PieceLiteral(piece))

Mixed == \E i, j \in 1..Len(call.seps) : call.seps[i] = "or" /\ call.seps[j] = "and"

HeadsWellFormed ==
    LET pieces == OrPieces(call.leaves, call.seps) IN
    \A i \in 1..Len(pieces) : WellFormed(pieces[i][1], call.header)

\* the reading that splits on ' and ' first: every ' and ' part has a true leaf
RECURSIVE AndParts(_, _)
AndParts(leaves, seps) ==
    IF Len(leaves) = 1 THEN <<leaves>>
    ELSE LET rest == AndParts(Tail(leaves), Tail(seps)) IN
         IF seps[1] = "and" THEN <<<<leaves[1]>>>> \o rest
         ELSE <<<<leaves[1]>> \o rest[1]>> \o Tail(rest)

AndFirstReading(row, header, leaves, seps) ==
    LET parts == AndParts(leaves, seps) IN
    \A i \in 1..Len(parts) : \E j \in 1..Len(parts[i]) : LeafHolds(row, header, parts[i][j])

\* C4: a clause holding both ' or ' and ' and ' is split on ' or ' only and is
\* the OR of its pieces, each piece read as one leaf; it is not split on
\* ' and '.
C4_MixedClauseIsOrOfPieces ==
    (WhereReturned /\ Mixed /\ HeadsWellFormed) =>
        LET pieces == OrPieces(call.leaves, call.seps) IN
        /\ ret.val = (\E i \in 1..Len(pieces) : PieceHolds(call.row, call.header, pieces[i]))
        /\ ret.printed = ""

\* C4 witness: a mixed clause of well-formed leaves was found true for a row
\* on which the reading that splits on ' and ' first is false.
C4_Witness ==
    /\ WhereReturned /\ Mixed /\ AllWellFormed
    /\ ret.val
    /\ ~AndFirstReading(call.row, call.header, call.leaves, call.seps)

\* a leaf evaluator was called on a leaf written as LeafText writes it
LeafCalled == call.fn \in {"_evaluate_condition", "_evaluate_single_condition"}
                 /\ ret.state # "pending"
                 /\ call.text = LeafText(call.leaves[1])

\* C6: evaluating a leaf raises the syntax error when it has fewer than 3
\* tokens, the column-not-found error when its column is not in the header,
\* the unsupported-operator error when its operator is not one of the eight
\* (a leaf with several of these faults raises the first of them in this
\* order); in none of these cases does it return a boolean, and in every
\* other case it does.
C6_LeafErrors ==
    LeafCalled =>
        LET leaf == call.leaves[1] IN
        IF leaf.form # "full" THEN ret.state = "raised" /\ ret.raised = InvalidFormat
        ELSE IF leaf.col \notin Range(call.header)
        THEN ret.state = "raised" /\ ret.raised = ColumnNotFound
        ELSE IF leaf.op \notin ValidOps
        THEN ret.state = "raised" /\ ret.raised = UnsupportedOperator
        ELSE ret.state = "returned"

\* C6 witness: _evaluate_condition was given a leaf on a column of the header
\* with an operator outside the eight, and raised the unsupported-operator
\* error.
C6_Witness ==
    /\ LeafCalled /\ call.fn = "_evaluate_condition"
    /\ call.leaves[1].form = "full"
    /\ call.leaves[1].col \in Range(call.header)
    /\ call.leaves[1].op = BadOp
    /\ ret.state = "raised" /\ ret.raised = UnsupportedOperator

(***************************************************************************)
(* Properties of the scan of select_from.                                  *)
(***************************************************************************)
\* select_from is in or past the loop of a projection query
Projecting ==
    pc \in {"loop", "break", "returned"} /\ file_exists /\ aggregate_function = ""

\* row j of the table passes the filter of line 173
FilterPasses(j) ==
    ~HasWhere \/ _evaluate_where(rows_list[j], fieldnames, where_clause).val

WhereErrorsPrinted == {i \in 1..Len(stdout) : stdout[i].kind = "where_error"}

RECURSIVE TotalMemory(_)
TotalMemory(tuples) ==
    IF tuples = <<>> THEN 0 ELSE RowMemory(tuples[1]) + TotalMemory(Tail(tuples))

\* the footprint of the tuples of results that came from rows before row j
RECURSIVE HeldUpTo(_, _)
HeldUpTo(k, j) ==
    IF k = 0 THEN 0
    ELSE (IF results_src[k] < j THEN RowMemory(results[k]) ELSE 0) + HeldUpTo(k - 1, j)

HeldBefore(j) == HeldUpTo(Len(results), j)

TupleOf(j) == RowData(rows_list[j], fieldnames, columns)

\* C7: at every point of a projection scan the accumulated footprint is that
\* of the rows held in the result and is at most the memory budget; the scan
\* goes past a filtered row only if its footprint fitted, stops at the first
\* one whose footprint added to the accumulated footprint exceeds the budget,
\* and neither that row nor a later one is in the result.
C7_ResultWithinBudget ==
    Projecting =>
        /\ memory_usage = TotalMemory(results)
        /\ memory_usage <= memory_limit
        /\ \A j \in 1..Len(rows_list) :
              (j < row_idx /\ FilterPasses(j))
                  => HeldBefore(j) + RowMemory(TupleOf(j)) <= memory_limit
        /\ budget_stop =>
              /\ row_idx <= Len(rows_list)
              /\ FilterPasses(row_idx)
              /\ memory_usage + RowMemory(TupleOf(row_idx)) > memory_limit
        /\ \A k \in 1..Len(results) : results_src[k] < row_idx
        /\ (pc = "returned" /\ ~budget_stop) => row_idx = Len(rows_list) + 1

\* C7 witness: a scan that had taken one row into the result stopped on the
\* budget at a later row and has printed.
C7_Witness ==
    /\ Projecting /\ pc = "returned" /\ budget_stop
    /\ Len(results) >= 1
    /\ row_idx < Len(rows_list)

\* C8: a stop on the budget is reported: what select_from gives its caller
\* after a scan that the budget ended differs from what it gives after a scan
\* of a table that ends where the stop occurred, or anywhere else (which is
\* what a truncation flag provides).
C8_BudgetStopIsReported ==
    (Projecting /\ pc = "returned" /\ budget_stop) =>
        \A k \in 0..Len(rows_list) :
            LET whole == ScanOver(ScanStart, SubSeq(rows_list, 1, k), 1) IN
            whole.stopped \/ PrintedBy(whole) # stdout

\* the tuple of the columns asked for, all of them columns of the header
Project(row, cols) == [i \in 1..Len(cols) |-> ValueOf(row, fieldnames, cols[i])]
ValidProjection == \A i \in 1..Len(columns) : columns[i] \in Range(fieldnames)

\* the tuples of a sequence at their first occurrence
FirstOccurrences(seq) ==
    LET keep == {i \in 1..Len(seq) : \A j \in 1..(i - 1) : seq[j] # seq[i]}
        nth(n) == CHOOSE i \in keep : Cardinality({j \in keep : j < i}) = n - 1
    IN [n \in 1..Cardinality(keep) |-> seq[nth(n)]]

\* the projected tuples of the rows that pass the filter, in file order
FilteredProjected ==
    LET keep == {j \in 1..Len(rows_list) : FilterPasses(j)}
        nth(n) == CHOOSE j \in keep : Cardinality({i \in keep : i < j}) = n - 1
    IN [n \in 1..Cardinality(keep) |-> Project(rows_list[nth(n)], columns)]

\* the budget holds the tuples of all rows of the table
BudgetForAllRows ==
    TotalMemory([j \in 1..Len(rows_list) |-> Project(rows_list[j], columns)]) <= memory_limit

\* C9: given a budget large enough for all rows, select_from does not stop
\* on the budget and its result, which it prints, is the sequence of the
\* projected tuples of the rows that pass the filter, in file order, each at
\* its first occurrence when distinct is set.
C9_FullResultWithinBudget ==
    (Projecting /\ pc = "returned" /\ ValidProjection /\ BudgetForAllRows) =>
        /\ ~budget_stop
        /\ results = IF distinct THEN FirstOccurrences(FilteredProjected)
                     ELSE FilteredProjected
        /\ stdout[Len(stdout)].kind = "table"
        /\ stdout[Len(stdout)].table.data_rows = results

\* C9 witness: with a budget under the default that holds all three rows of
\* the table, a scan with a filter that drops a row has printed the two
\* others.
C9_Witness ==
    /\ Projecting /\ pc = "returned" /\ ValidProjection /\ BudgetForAllRows
    /\ memory_limit < DefaultMemoryLimit
    /\ Len(rows_list) = 3 /\ HasWhere
    /\ Len(results) = 2
    /\ \E j \in 1..3 : ~FilterPasses(j)

\* C10: with distinct set the result holds no two equal tuples, holds the
\* projected tuple of every filtered row the scan has gone past, and orders
\* the tuples by their first occurrence in the file.
C10_DistinctResult ==
    (Projecting /\ distinct /\ ValidProjection) =>
        /\ \A a, b \in 1..Len(results) : a # b => results[a] # results[b]
        /\ \A j \in 1..Len(rows_list) :
              (j < row_idx /\ FilterPasses(j))
                  => \E k \in 1..Len(results) : results[k] = Project(rows_list[j], columns)
        /\ \A k \in 1..Len(results) :
              /\ FilterPasses(results_src[k])
              /\ results[k] = Project(rows_list[results_src[k]], columns)
              /\ \A j \in 1..(results_src[k] - 1) :
                    FilterPasses(j) => Project(rows_list[j], columns) # results[k]
        /\ \A a, b \in 1..Len(results) : a < b => results_src[a] < results_src[b]

\* C10 witness: a distinct scan went past three filtered rows, the second a
\* repeat of the first, and holds the tuples of the first and the third.
C10_Witness ==
    /\ Projecting /\ distinct /\ ValidProjection /\ pc = "returned"
    /\ Len(rows_list) = 3 /\ row_idx = 4
    /\ \A j \in 1..3 : FilterPasses(j)
    /\ Project(rows_list[1], columns) = Project(rows_list[2], columns)
    /\ results_src = <<1, 3>>

(***************************************************************************)
(* The projection.                                                         *)
(***************************************************************************)
TablesPrinted == {i \in 1..Len(stdout) : stdout[i].kind = "table"}

\* C11: on a table with a header and rows, a projection naming a column that
\* is not in the header makes select_from fail with the column-not-found
\* error, and so every tuple of a result set it prints has as many fields as
\* the projection has columns.
C11_UnknownColumnFails ==
    (pc = "returned" /\ file_exists /\ aggregate_function = "" /\ rows_list # <<>>) =>
        /\ ~ValidProjection =>
              /\ TablesPrinted = {}
              /\ \E i \in 1..Len(stdout) : stdout[i].text = ColumnNotFound
        /\ \A i \in TablesPrinted :
              \A k \in 1..Len(stdout[i].table.data_rows) :
                  Len(stdout[i].table.data_rows[k]) = Len(stdout[i].table.columns)

(***************************************************************************)
(* Rows written by insert_into_table and read back by select_from.         *)
(***************************************************************************)
SelectedAll == pc = "returned" /\ file_exists /\ columns # <<>>

\* C12: after N rows were inserted into a table, select_from with '*', no
\* where clause and the default budget gives exactly those N rows, in the
\* order of their insertion.
C12_InsertThenSelectAll ==
    SelectedAll =>
        /\ stdout[Len(stdout)].kind = "table"
        /\ stdout[Len(stdout)].table.data_rows = inserted

(***************************************************************************)
(* Properties of chunk_csv.  The rows of a table are the lines of its file *)
(* under the header line, as select_from reads them.                       *)
(***************************************************************************)
TableRows == IF table_file = <<>> THEN <<>> ELSE Tail(table_file)

Chunked == chunk_pc = "returned" /\ file_exists
NumChunks == Cardinality(DOMAIN chunk_files)

\* the chunk files 0..n-1 one after the other
RECURSIVE ChunksJoined(_)
ChunksJoined(n) == IF n = 0 THEN <<>> ELSE ChunksJoined(n - 1) \o chunk_files[n - 1]

\* the per-chunk row count: floor(budget / estimated row size), 1 at least
PerChunk == Max(1, memory_limit \div row_size)

\* C13: the chunk files, taken in the order of their numbers, hold the rows
\* of the table in their order, each row once; every chunk but the last holds
\* just the per-chunk row count and the last holds the rest (25 rows cut by
\* 10 give chunks of 10, 10 and 5 rows).
C13_ChunksAreTheRows ==
    Chunked =>
        /\ DOMAIN chunk_files = 0..(NumChunks - 1)
        /\ ChunksJoined(NumChunks) = TableRows
        /\ \A c \in 0..(NumChunks - 2) : Len(chunk_files[c]) = PerChunk
        /\ NumChunks > 0 => Len(chunk_files[NumChunks - 1]) \in 1..PerChunk
        /\ (Len(TableRows) = 25 /\ PerChunk = 10) =>
              [c \in 1..NumChunks |-> Len(chunk_files[c - 1])] = <<10, 10, 5>>

\* C17: chunk_csv fails for want of rows, and writes no chunk file, exactly
\* when the table has fewer rows than the sample size of 10; a table of 10
\* rows or more is chunked.
C17_FailsUnderSampleSize ==
    (chunk_pc \in {"returned", "raised"} /\ file_exists) =>
        /\ (chunk_pc = "raised") <=> (Len(TableRows) < SampleSize)
        /\ chunk_pc = "raised" => chunk_files = <<>>

\* C20: the number of rows chunk_csv puts in a chunk file is
\* floor(budget / estimated row size) and 1 at least: every chunk file but
\* the last holds that many lines of the table file, the last holds the rest,
\* and under a budget smaller than the estimated row size every chunk file
\* holds one line and none is empty.
C20_PerChunkAtLeastOne ==
    Chunked =>
        /\ DOMAIN chunk_files = 0..(NumChunks - 1)
        /\ \A c \in 0..(NumChunks - 2) : Len(chunk_files[c]) = PerChunk
        /\ NumChunks > 0 => Len(chunk_files[NumChunks - 1]) \in 1..PerChunk
        /\ NumChunks = (Len(table_file) + PerChunk - 1) \div PerChunk
        /\ memory_limit < row_size =>
              /\ NumChunks = Len(table_file)
              /\ \A c \in DOMAIN chunk_files : Len(chunk_files[c]) = 1

\* C20 witness: under a budget smaller than the estimated row size, with
\* floor(budget / estimated row size) = 0, a file of more than 10 lines was
\* cut into chunk files.
C20_Witness ==
    /\ Chunked
    /\ memory_limit < row_size /\ rows_per_chunk = 0
    /\ Len(table_file) > SampleSize
    /\ NumChunks = Len(table_file)

(***************************************************************************)
(* Properties of the aggregates.  A value is a number when it is the       *)
(* decimal writing of a natural number.                                    *)
(***************************************************************************)
MaxNumber == 10         \* the greatest number a table of the model holds
IsNumber(s) == \E n \in 0..MaxNumber : NumStr(n) = s
NumberOf(s) == CHOOSE n \in 0..MaxNumber : NumStr(n) = s

Aggregating(fn) ==
    pc \in {"loop", "returned"} /\ file_exists /\ aggregate_function = fn

\* the rows before row i that pass the filter and hold a number in the
\* column of the aggregate
ParsedBefore(i) ==
    {j \in 1..(i - 1) :
        /\ FilterPasses(j)
        /\ column_to_aggregate \in Range(fieldnames)
        /\ IsNumber(ValueOf(rows_list[j], fieldnames, column_to_aggregate))}

ParsedValue(j) == NumberOf(ValueOf(rows_list[j], fieldnames, column_to_aggregate))

RECURSIVE SumOver(_)
SumOver(S) ==
    IF S = {} THEN 0
    ELSE LET j == CHOOSE k \in S : TRUE IN ParsedValue(j) + SumOver(S \ {j})

AllRows == Len(rows_list) + 1
Printed == stdout[Len(stdout)]

\* C14: count(col) is the number of rows that pass the predicate and hold a
\* number in col; a row whose value is no number is passed over and the scan
\* goes on to the last row.
C14_CountIsParsedRows ==
    Aggregating("count") =>
        /\ count = Cardinality(ParsedBefore(row_idx))
        /\ pc = "returned" =>
              /\ row_idx = AllRows
              /\ Printed.kind = "scalar" /\ Printed.text = "Count"
              /\ Printed.scalar.num = Cardinality(ParsedBefore(AllRows))
              /\ Printed.scalar.den = 1

\* C14 witness: count(x) over rows holding "1", "a", "3" in x has printed 2.
C14_Witness ==
    /\ Aggregating("count") /\ pc = "returned" /\ ~HasWhere
    /\ column_to_aggregate = X
    /\ [j \in 1..Len(rows_list) |-> rows_list[j][1]] = <<Lit1, LitA, Lit3>>
    /\ Printed.scalar.num = 2

\* C15: avg(col) is the sum of the numbers in col over the rows that pass
\* the predicate divided by the number of those rows, and 0 when there is
\* none; a row whose value is no number changes neither the sum nor the
\* count.
C15_AvgIsSumOverCount ==
    Aggregating("avg") =>
        /\ count = Cardinality(ParsedBefore(row_idx))
        /\ sum_value = SumOver(ParsedBefore(row_idx))
        /\ pc = "returned" =>
              /\ row_idx = AllRows
              /\ Printed.kind = "scalar" /\ Printed.text = "Avg"
              /\ Printed.scalar.den > 0
              /\ IF ParsedBefore(AllRows) = {} THEN Printed.scalar.num = 0
                 ELSE Printed.scalar.num * Cardinality(ParsedBefore(AllRows))
                          = SumOver(ParsedBefore(AllRows)) * Printed.scalar.den

\* C15 witness: avg(x) over rows holding "1", "a", "3" in x has printed 4/2.
C15_Witness ==
    /\ Aggregating("avg") /\ pc = "returned" /\ ~HasWhere
    /\ column_to_aggregate = X
    /\ [j \in 1..Len(rows_list) |-> rows_list[j][1]] = <<Lit1, LitA, Lit3>>
    /\ Printed.scalar.num = 4 /\ Printed.scalar.den = 2

\* the running extremum cur is that of the numbers of the rows in S
ExtremumOf(cur, S, least) ==
    IF S = {} THEN ~cur.set
    ELSE /\ cur.set
         /\ \E j \in S : ParsedValue(j) = cur.v
         /\ \A j \in S : IF least THEN cur.v <= ParsedValue(j) ELSE cur.v >= ParsedValue(j)

\* C16: min(col) and max(col) are the least and the greatest number in col
\* over the rows that pass the predicate; the extremum is unset until a first
\* value is a number, and over a column holding no number the query ends
\* as any other and prints the unset marker.
C16_MinMaxAreExtrema ==
    /\ Aggregating("min") =>
          /\ ExtremumOf(min_value, ParsedBefore(row_idx), TRUE)
          /\ pc = "returned" =>
                /\ row_idx = AllRows
                /\ Printed.kind = "scalar" /\ Printed.text = "Min"
                /\ Printed.scalar.set = min_value.set
                /\ Printed.scalar.set => Printed.scalar.num = min_value.v
    /\ Aggregating("max") =>
          /\ ExtremumOf(max_value, ParsedBefore(row_idx), FALSE)
          /\ pc = "returned" =>
                /\ row_idx = AllRows
                /\ Printed.kind = "scalar" /\ Printed.text = "Max"
                /\ Printed.scalar.set = max_value.set
                /\ Printed.scalar.set => Printed.scalar.num = max_value.v

\* C16 witness: min(x) over rows holding "a", "10", "3" in x, the first no
\* number, has printed 3.
C16_Witness ==
    /\ Aggregating("min") /\ pc = "returned" /\ ~HasWhere
    /\ column_to_aggregate = X
    /\ [j \in 1..Len(rows_list) |-> rows_list[j][1]] = <<LitA, Lit10, Lit3>>
    /\ Printed.scalar.set /\ Printed.scalar.num = 3

(***************************************************************************)
(* The comparison of a leaf.                                               *)
(***************************************************************************)
\* C18: the comparison of a leaf is that of text under each of the eight
\* operators: <, <=, >, >= follow the lexicographic order of strings and =,
\* ==, !=, <> their equality, no value being taken as a number, so that the
\* row value "9" satisfies '> 10'.
C18_ComparisonIsTextual ==
    (LeafCalled /\ WellFormed(call.leaves[1], call.header)) =>
        /\ ret.state = "returned"
        /\ ret.val = LeafHolds(call.row, call.header, call.leaves[1])
        /\ (/\ ValueOf(call.row, call.header, call.leaves[1].col) = Lit9
            /\ call.leaves[1].op = <<">">>
            /\ call.leaves[1].lit = Lit10) => ret.val

\* C18 witness: _evaluate_single_condition found the leaf x > 10 true for a
\* row whose x is "9".
C18_Witness ==
    /\ LeafCalled /\ call.fn = "_evaluate_single_condition"
    /\ call.leaves[1] = Leaf(X, <<">">>, Lit10, FALSE, "full")
    /\ call.row[1] = Lit9
    /\ ret.state = "returned" /\ ret.val

(***************************************************************************)
(* The leaf of a pattern.                                                  *)
(***************************************************************************)
IsLikeLeaf(leaf) == leaf.op \in LikeWords

\* what a leaf means for a row: the match of the pattern for a leaf with the
\* word like, the comparison for the others
LeafMeaning(row, header, leaf) ==
    IF IsLikeLeaf(leaf)
    THEN _match_like_pattern(ValueOf(row, header, leaf.col), leaf.lit)
    ELSE LeafHolds(row, header, leaf)

\* C19: a leaf with the word like, in any letter case, is given to the
\* pattern matcher: its result for a row is _match_like_pattern of the row's
\* value of the column and the quoted pattern, when the leaf is the whole
\* clause and when it is one side of an ' or ' or an ' and '.
C19_LikeIsRouted ==
    (WhereReturned /\ \E i \in 1..Len(call.leaves) : IsLikeLeaf(call.leaves[i])) =>
        /\ ret.printed = ""
        /\ ret.val = IF Len(call.leaves) = 1
                     THEN LeafMeaning(call.row, call.header, call.leaves[1])
                     ELSE IF call.seps[1] = "or"
                     THEN \E i \in 1..2 : LeafMeaning(call.row, call.header, call.leaves[i])
                     ELSE \A i \in 1..2 : LeafMeaning(call.row, call.header, call.leaves[i])

(***************************************************************************)
(* The quotes of a literal.                                                *)
(***************************************************************************)
\* the tail of the leaf of the call as it is written after the operator
TailWritten ==
    LET leaf == call.leaves[1] IN
    IF call.text = TwiceQuotedText(leaf) THEN Quote(Quote(leaf.lit))
    ELSE IF leaf.quoted THEN Quote(leaf.lit) ELSE leaf.lit

\* a text without one layer of enclosing quotes
OneLayerOff(t) ==
    IF Len(t) >= 2 /\ t[1] = "'" /\ t[Len(t)] = "'" THEN SubSeq(t, 2, Len(t) - 1) ELSE t

AnyLeafCalled == call.fn \in {"_evaluate_condition", "_evaluate_single_condition"}
                    /\ ret.state # "pending"

\* C21: the literal of a comparison leaf is the tail after the operator
\* without exactly one layer of enclosing quotes: the leaf is the comparison
\* of the row value with that text, and a tail inside two layers of quotes
\* is compared with its inner layer of quotes kept.
C21_OneLayerOfQuotesRemoved ==
    (AnyLeafCalled /\ WellFormed(call.leaves[1], call.header)) =>
        /\ ret.state = "returned"
        /\ ret.val = Compares(ValueOf(call.row, call.header, call.leaves[1].col),
                              call.leaves[1].op, OneLayerOff(TailWritten))

(***************************************************************************)
(* The budget and the repeated tuples of a distinct scan.                  *)
(***************************************************************************)
\* row j is the first filtered row at or after the row the scan is on whose
\* tuple is not in the result, and its footprint fits the budget left
NextUnseenFits(j) ==
    /\ j >= row_idx /\ FilterPasses(j)
    /\ TupleOf(j) \notin seen_values
    /\ \A i \in row_idx..(j - 1) : FilterPasses(i) => TupleOf(i) \in seen_values
    /\ memory_usage + RowMemory(TupleOf(j)) <= memory_limit

\* C22: with distinct set, a filtered row whose tuple is already in the
\* result does not end the scan: the scan stops on the budget only at a row
\* whose tuple is not in the result, and once it has returned no filtered
\* row follows a run of repeated tuples with a tuple not in the result whose
\* footprint fits the budget left.
C22_RepeatedTupleDoesNotStop ==
    (Projecting /\ distinct /\ ValidProjection) =>
        /\ budget_stop => TupleOf(row_idx) \notin seen_values
        /\ pc = "returned" => \A j \in 1..Len(rows_list) : ~NextUnseenFits(j)

(***************************************************************************)
(* The table methods with no database selected.                            *)
(***************************************************************************)
\* no use_db has succeeded yet, or the database selected has been dropped
NoneSelected == current_db \in {NoAttribute, RootDir}

TableMethod ==
    create_table \/ drop_table \/ \E values \in InsertValues : insert_into_table(values)

\* C23: whenever no database is selected (no use_db has succeeded yet, or
\* the selected database has been dropped), a call of create_table,
\* drop_table or insert_into_table prints 'No database selected', returns
\* normally, and creates, removes or modifies no file.
C23_NoDatabaseSelected ==
    [][(NoneSelected /\ TableMethod) =>
          /\ stdout' = Append(stdout, Message(NoDatabaseSelected))
          /\ pc' = "idle"
          /\ UNCHANGED <<file_exists, table_file, root_table_exists, db_exists>>]_vars

====
